---- MODULE Spec2Model ----
(***************************************************************************)
(* Model of static/js/app.js (class CarburantApp): the search controller,  *)
(* its filter chain, its sort routine and the rendering step's failures.   *)
(*                                                                         *)
(* Conventions                                                             *)
(*  - a price is an integer number of thousandths of a euro (1850 is the   *)
(*    value rendered "1.850");                                             *)
(*  - an instant is Date.getTime() divided by 60000 (the display format    *)
(*    has a resolution of one minute), the local time zone being UTC;      *)
(*  - a property that a record may lack is a pair of fields: aPrix says    *)
(*    whether station.prix is present, aValeur whether prix.valeur is.     *)
(***************************************************************************)
EXTENDS Integers, Sequences, FiniteSets, TLC

\* ---------------------------------------------------------------- bounds
\* Longest list of stations a response carries.
MaxStations == 2
\* Cap on the requests that are awaiting their response at the same time.
MaxEnVol == 2

\* ------------------------------------------------------- records (spec §3)
\* A timestamp string that matches  DD/MM/YYYY à HH:MM .
Maj(j, m, a, h, mi) ==
    [forme |-> "date", jour |-> j, mois |-> m, annee |-> a, heure |-> h, minute |-> mi]

\* A timestamp string that does not match the pattern: the sentinel
\* "Non renseigné", the empty string, or any other text.
MajTexte(t) ==
    [forme |-> t, jour |-> 0, mois |-> 0, annee |-> 0, heure |-> 0, minute |-> 0]

Prix(nom, valeur, maj) ==
    [nom |-> nom, aValeur |-> TRUE, valeur |-> valeur, maj |-> maj]

\* A price entry whose valeur property is missing (undefined).
PrixSansValeur(nom, maj) ==
    [nom |-> nom, aValeur |-> FALSE, valeur |-> 0, maj |-> maj]

\* The stations the server may return.
\* Well-formed; its second price was never updated.
Station1 ==
    [id |-> 1, type |-> "Autoroute", automate_24h |-> TRUE, horaires |-> "24h/24",
     marque |-> "TOTAL", ville |-> "Paris", aPrix |-> TRUE,
     prix |-> << Prix("SP95", 1850, Maj(15, 1, 2025, 8, 0)),
                 Prix("Gazole", 1720, MajTexte("Non renseigné")) >>]

\* No price at all: the price list is present and empty; no brand.
Station2 ==
    [id |-> 2, type |-> "Route", automate_24h |-> FALSE,
     horaires |-> "Horaires non disponibles",
     marque |-> "", ville |-> "Lyon", aPrix |-> TRUE, prix |-> << >>]

\* Malformed record: the price list is missing.
Station3 ==
    [id |-> 3, type |-> "Route", automate_24h |-> FALSE, horaires |-> "08:00-20:00",
     marque |-> "Esso", ville |-> "Lyon", aPrix |-> FALSE, prix |-> << >>]

\* Malformed record: a price entry without a numeric value, and one with a
\* timestamp in another format.
Station4 ==
    [id |-> 4, type |-> "Route", automate_24h |-> TRUE,
     horaires |-> "Horaires non disponibles",
     marque |-> "Avia", ville |-> "Nice", aPrix |-> TRUE,
     prix |-> << PrixSansValeur("Gazole", Maj(20, 1, 2025, 9, 30)),
                 Prix("E10", 1700, MajTexte("2025-01-20 09:30")) >>]

Stations == {Station1, Station2, Station3, Station4}

\* Sequences of length n over S, without repetition.
RECURSIVE ListesDe(_, _)
ListesDe(S, n) ==
    IF n = 0 THEN {<< >>}
    ELSE UNION {{Append(l, s) : s \in S \ {l[i] : i \in 1..Len(l)}} : l \in ListesDe(S, n - 1)}

\* The station lists of a success payload: zero or more stations.
Payloads == UNION {ListesDe(Stations, n) : n \in 0..MaxStations}

\* What the user may have typed in villeInput, character by character:
\* nothing, white space only, a city, a city between white space.
Queries == { << >>, << " ", " " >>, << "P" >>, << " ", "P", " " >> }

\* Values of the controls (the option values of the three selects and the
\* fuel checkboxes).  "distance" stands for an option value that
\* trierStations has no case for.
TriValues == {"date-maj", "", "prix-croissant", "prix-decroissant", "ville-az", "marque-az", "distance"}
TypeValues == {"", "autoroute", "route"}
HorairesValues == {"", "24h", "ouvert"}
Fuels == {"SP95", "Gazole"}

\* ------------------------------------------------------------ text input
\* (mutant) the text is read without trim().
SansTrim(q) == q

\* String.prototype.trim on the typed text: leading and trailing white
\* space removed.
RECURSIVE TrimDebut(_)
TrimDebut(q) ==
    IF Len(q) > 0 /\ Head(q) = " " THEN TrimDebut(Tail(q)) ELSE q

RECURSIVE TrimFin(_)
TrimFin(q) ==
    IF Len(q) > 0 /\ q[Len(q)] = " " THEN TrimFin(SubSeq(q, 1, Len(q) - 1)) ELSE q

Trim(q) == TrimFin(TrimDebut(q))

\* ----------------------------------------------------------------- dates
EstBissextile(y) == (y % 4 = 0 /\ y % 100 # 0) \/ y % 400 = 0

\* Leap years in 1..y-1.
BissextilesAvant(y) == ((y - 1) \div 4) - ((y - 1) \div 100) + ((y - 1) \div 400)

JoursAvantAnnee(y) == 365 * (y - 1970) + BissextilesAvant(y) - BissextilesAvant(1970)

\* Days of the year before month index m (0 = January).
JoursAvantMois(m, y) ==
    << 0, 31, 59, 90, 120, 151, 181, 212, 243, 273, 304, 334 >>[m + 1]
      + (IF m > 1 /\ EstBissextile(y) THEN 1 ELSE 0)

\* new Date(year, monthIndex, day, hour, minute).getTime(), in minutes.
\* A year 0..99 means 1900 + year; a month index or a day out of range
\* carries over into the next (or previous) year or month.
DateGetTime(annee, moisIndex, jour, heure, minute) ==
    LET a  == IF annee >= 0 /\ annee <= 99 THEN 1900 + annee ELSE annee
        ym == a * 12 + moisIndex
        y  == ym \div 12
        m  == ym % 12
        jours == JoursAvantAnnee(y) + JoursAvantMois(m, y) + (jour - 1)
    IN  (jours * 24 + heure) * 60 + minute

\* parseDisplayDate: 0 for a missing, empty, sentinel or unmatched string.
ParseDisplayDate(dateStr) ==
    IF dateStr.forme = "" \/ dateStr.forme = "Non renseigné" THEN 0
    ELSE IF dateStr.forme # "date" THEN 0
    ELSE DateGetTime(dateStr.annee, dateStr.mois - 1, dateStr.jour,
                     dateStr.heure, dateStr.minute)

Max2(a, b) == IF b > a THEN b ELSE a

RECURSIVE LatestDe(_, _)
LatestDe(prix, latestTimestamp) ==
    IF prix = << >> THEN latestTimestamp
    ELSE LatestDe(Tail(prix), Max2(latestTimestamp, ParseDisplayDate(Head(prix).maj)))

\* getLatestUpdateTimestamp
GetLatestUpdateTimestamp(station) ==
    IF ~station.aPrix \/ Len(station.prix) = 0 THEN 0
    ELSE LatestDe(station.prix, 0)

\* 1000 * 60 * 60 * 24 milliseconds, in minutes.
MinutesParJour == 24 * 60

\* (mutant) diffDays < 7 in place of diffDays <= 7.
GetDataAgeStrict(dateString, now) ==
    IF dateString.forme # "date" THEN "stale"
    ELSE LET diff == now - DateGetTime(dateString.annee, dateString.mois - 1,
                                       dateString.jour, dateString.heure,
                                       dateString.minute)
         IN  IF diff < 7 * MinutesParJour THEN "fresh"
             ELSE IF diff <= 30 * MinutesParJour THEN "old"
             ELSE "stale"

\* getDataAge, now being the instant new Date() gives.  diffDays <= n is
\* diff <= n days, diff being now - updateDate in minutes.
GetDataAge(dateString, now) ==
    IF dateString.forme = "" \/ dateString.forme = "Non renseigné" THEN "stale"
    ELSE IF dateString.forme # "date" THEN "stale"
    ELSE LET updateDate == DateGetTime(dateString.annee, dateString.mois - 1,
                                       dateString.jour, dateString.heure,
                                       dateString.minute)
             diff == now - updateDate
         IN  IF diff <= 7 * MinutesParJour THEN "fresh"
             ELSE IF diff <= 30 * MinutesParJour THEN "old"
             ELSE "stale"

\* ---------------------------------------------------------------- prices
\* getPrixMoyen returns Infinity for a station without prices.
PrixMoyenInfini(station) == ~station.aPrix \/ Len(station.prix) = 0

\* parseFloat(prix.valeur || 0): a missing value counts for 0.
ValeurOuZero(prix) == IF prix.aValeur THEN prix.valeur ELSE 0

RECURSIVE TotalPrix(_)
TotalPrix(prix) ==
    IF prix = << >> THEN 0 ELSE ValeurOuZero(Head(prix)) + TotalPrix(Tail(prix))

Signe(n) == IF n < 0 THEN -1 ELSE IF n > 0 THEN 1 ELSE 0

\* The sign of getPrixMoyen(a) - getPrixMoyen(b) as the sort reads it:
\* Infinity - Infinity is NaN, which a comparator result counts as 0.  The
\* finite means total/length are compared by cross-multiplication.
DiffPrixMoyen(a, b) ==
    IF PrixMoyenInfini(a) /\ PrixMoyenInfini(b) THEN 0
    ELSE IF PrixMoyenInfini(a) THEN 1
    ELSE IF PrixMoyenInfini(b) THEN -1
    ELSE Signe(TotalPrix(a.prix) * Len(b.prix) - TotalPrix(b.prix) * Len(a.prix))

\* ------------------------------------------------------------------ sort
\* The texts of the model in the order localeCompare gives them.
OrdreLocale == << "", "Avia", "Esso", "Lyon", "Nice", "Paris", "TOTAL" >>

RangLocale(t) == CHOOSE i \in 1..Len(OrdreLocale) : OrdreLocale[i] = t

LocaleCompare(a, b) == Signe(RangLocale(a) - RangLocale(b))

\* The comparator of each case of the switch of trierStations.
Comparer(tri, a, b) ==
    CASE tri \in {"date-maj", ""} ->
            Signe(GetLatestUpdateTimestamp(b) - GetLatestUpdateTimestamp(a))
      [] tri = "prix-croissant"   -> DiffPrixMoyen(a, b)
      [] tri = "prix-decroissant" -> DiffPrixMoyen(b, a)
      [] tri = "ville-az"         -> LocaleCompare(a.ville, b.ville)
      [] tri = "marque-az"        -> LocaleCompare(a.marque, b.marque)

\* Where x goes in the sorted list r: after the last element that does not
\* compare greater than x.
RECURSIVE PlaceDe(_, _, _, _)
PlaceDe(tri, r, x, i) ==
    IF i = 0 THEN 0
    ELSE IF Comparer(tri, r[i], x) <= 0 THEN i
    ELSE PlaceDe(tri, r, x, i - 1)

\* Array.prototype.sort with a comparator: a stable sort.
RECURSIVE SortStable(_, _)
SortStable(stations, tri) ==
    IF Len(stations) <= 1 THEN stations
    ELSE LET n == Len(stations)
             r == SortStable(SubSeq(stations, 1, n - 1), tri)
             x == stations[n]
             k == PlaceDe(tri, r, x, n - 1)
         IN  SubSeq(r, 1, k) \o << x >> \o SubSeq(r, k + 1, n - 1)

\* trierStations: the switch has five cases ('date-maj' and '' share one)
\* and no default, so any other key leaves the list as it is.
TrierStations(stations, tri) ==
    IF tri \in {"date-maj", "", "prix-croissant", "prix-decroissant", "ville-az", "marque-az"}
    THEN SortStable(stations, tri)
    ELSE stations

\* --------------------------------------------------------------- filters
\* The station-type filter of appliquerFiltres.
FiltrerType(stations, typeStation) ==
    IF typeStation = "autoroute" THEN SelectSeq(stations, LAMBDA s : s.type = "Autoroute")
    ELSE IF typeStation = "route" THEN SelectSeq(stations, LAMBDA s : s.type = "Route")
    ELSE stations

\* The hours filter of appliquerFiltres.
FiltrerHoraires(stations, horaires) ==
    IF horaires = "24h" THEN SelectSeq(stations, LAMBDA s : s.automate_24h)
    ELSE IF horaires = "ouvert"
    THEN SelectSeq(stations, LAMBDA s : s.horaires # "Horaires non disponibles" \/ s.automate_24h)
    ELSE stations

\* selectedFuels.some(fuel => station.prix.some(prix => prix.nom === fuel))
VendUn(station, selectedFuels) ==
    \E fuel \in selectedFuels : \E i \in 1..Len(station.prix) : station.prix[i].nom = fuel

\* The callback of the fuel filter reads station.prix.some: a TypeError
\* when the station has no prix property.
CarburantsLeve(stations, selectedFuels) ==
    selectedFuels # {} /\ \E i \in 1..Len(stations) : ~stations[i].aPrix

\* The fuel filter of appliquerFiltres (when it does not throw).
FiltrerCarburants(stations, selectedFuels) ==
    IF selectedFuels # {} THEN SelectSeq(stations, LAMBDA s : VendUn(s, selectedFuels))
    ELSE stations

\* ------------------------------------------------------------- rendering
\* creerCarteStation calls prix.valeur.toFixed(3) for every price entry of
\* a station that has prices: a TypeError when valeur is not a number.
CarteLeve(station) ==
    station.aPrix /\ \E i \in 1..Len(station.prix) : ~station.prix[i].aValeur

\* The content of the element 'resultats'.
Contenu(kind, stations) == [kind |-> kind, stations |-> stations]

\* afficherResultats: the new content of 'resultats', or the exception of
\* creerCarteStation, which leaves the content as it was.
AfficherResultats(stations, resultats) ==
    IF Len(stations) = 0 THEN [leve |-> FALSE, resultats |-> Contenu("no-results", << >>)]
    ELSE IF \E i \in 1..Len(stations) : CarteLeve(stations[i])
    THEN [leve |-> TRUE, resultats |-> resultats]
    ELSE [leve |-> FALSE, resultats |-> Contenu("results", stations)]

\* ------------------------------------------------------ appliquerFiltres
\* The three filters in the order of the code; leve when the fuel filter
\* throws on what the two others kept.
Filtrer(stations, typeStation, horaires, selectedFuels) ==
    LET s1 == FiltrerType(stations, typeStation)
        s2 == FiltrerHoraires(s1, horaires)
    IN  IF CarburantsLeve(s2, selectedFuels)
        THEN [leve |-> TRUE, stations |-> s2]
        ELSE [leve |-> FALSE, stations |-> FiltrerCarburants(s2, selectedFuels)]

\* document.getElementById('triSelect')?.value || 'date-maj'
TriLu(triSelect) == IF triSelect = "" THEN "date-maj" ELSE triSelect

\* (mutant) let stations = this.stationsData, without the copy: when no
\* filter builds a new array, the sort reorders the canonical collection.
AppliquerFiltresSansCopie(data, filtered, resultats, triSelect, typeStation, horaires, selectedFuels) ==
    IF Len(data) = 0
    THEN [leve |-> FALSE, stationsData |-> data, filteredStations |-> filtered,
          resultats |-> resultats]
    ELSE LET f == Filtrer(data, typeStation, horaires, selectedFuels)
             stations == TrierStations(f.stations, TriLu(triSelect))
             a == AfficherResultats(stations, resultats)
             enPlace == typeStation = "" /\ horaires \notin {"24h", "ouvert"}
                          /\ selectedFuels = {}
         IN  IF f.leve
             THEN [leve |-> TRUE, stationsData |-> data, filteredStations |-> filtered,
                   resultats |-> resultats]
             ELSE [leve |-> a.leve, stationsData |-> IF enPlace THEN stations ELSE data,
                   filteredStations |-> stations, resultats |-> a.resultats]

\* appliquerFiltres on the object's fields and the controls' values: the
\* new stationsData (the sort works on a copy, [...this.stationsData]),
\* filteredStations and content of 'resultats', and whether the call ended
\* by an exception (which leaves what it had not yet assigned).
AppliquerFiltres(data, filtered, resultats, triSelect, typeStation, horaires, selectedFuels) ==
    IF Len(data) = 0
    THEN [leve |-> FALSE, stationsData |-> data, filteredStations |-> filtered,
          resultats |-> resultats]
    ELSE LET f == Filtrer(data, typeStation, horaires, selectedFuels)
             stations == TrierStations(f.stations, TriLu(triSelect))
             a == AfficherResultats(stations, resultats)
         IN  IF f.leve
             THEN [leve |-> TRUE, stationsData |-> data, filteredStations |-> filtered,
                   resultats |-> resultats]
             ELSE [leve |-> a.leve, stationsData |-> data,
                   filteredStations |-> stations, resultats |-> a.resultats]

\* ----------------------------------------------------------------- state
VARIABLES
    stationsData,       \* this.stationsData, the canonical collection
    filteredStations,   \* this.filteredStations
    isLoading,          \* this.isLoading
    resultats,          \* the content of the element 'resultats'
    villeInput,         \* value of the input 'villeInput'
    triSelect,          \* value of the select 'triSelect'
    typeStationSelect,  \* value of the select 'typeStationSelect'
    horairesSelect,     \* value of the select 'horairesSelect'
    fuelsChecked,       \* values of the checked fuel checkboxes
    enVol,              \* the calls of rechercherStations suspended at an await
    dernier,            \* history: what the last handler did
    derniereReponse,    \* history: the stations of the last success payload
    majLue,             \* the argument of the last call of getDataAge
    maintenant,         \* the instant new Date() gave to that call, in minutes
    ageClass            \* what that call returned ("" before any call)

vars == << stationsData, filteredStations, isLoading, resultats, villeInput, triSelect,
           typeStationSelect, horairesSelect, fuelsChecked, enVol, dernier,
           derniereReponse, majLue, maintenant, ageClass >>

\* The record of the calls of getDataAge; the content of 'resultats' does
\* not carry the age classes of the cards, and the handlers of the
\* controller leave this record alone.
age == << majLue, maintenant, ageClass >>

controles == << triSelect, typeStationSelect, horairesSelect, fuelsChecked >>

\* The constructor, and the controls as reinitialiserFiltres leaves them.
Init ==
    /\ stationsData = << >>
    /\ filteredStations = << >>
    /\ isLoading = FALSE
    /\ resultats = Contenu("vide", << >>)
    /\ villeInput = << >>
    /\ triSelect = "date-maj"
    /\ typeStationSelect = ""
    /\ horairesSelect = ""
    /\ fuelsChecked = {}
    /\ enVol = << >>
    /\ dernier = "init"
    /\ derniereReponse = << >>
    /\ majLue = MajTexte("")
    /\ maintenant = 0
    /\ ageClass = ""

\* ---------------------------------------------------- rechercherStations
\* (mutant) the guard is missing.
OccupeJamais == FALSE

\* The guard  if (this.isLoading) return;
Occupe == isLoading

\* A call of rechercherStations suspended at  await fetch(...) : where it
\* is and (history) stationsData when the request was sent.  The city is
\* read only to build the URL of the request.
Appel(ville) ==
    [pc |-> "fetch", avant |-> stationsData]

\* A click on 'rechercherBtn' (or Enter) with q typed in 'villeInput':
\* rechercherStations up to its first await.
RechercherStations(q) ==
    /\ villeInput' = q
    /\ UNCHANGED age
    /\ LET ville == Trim(q) IN
       IF ville = << >>
       THEN /\ dernier' = "alerte"
            /\ UNCHANGED << stationsData, filteredStations, isLoading, resultats,
                            controles, enVol, derniereReponse >>
       ELSE IF Occupe
       THEN /\ dernier' = "ignore"
            /\ UNCHANGED << stationsData, filteredStations, isLoading, resultats,
                            controles, enVol, derniereReponse >>
       ELSE /\ Len(enVol) < MaxEnVol
            /\ resultats' = Contenu("loading", << >>)
            /\ isLoading' = TRUE
            /\ enVol' = Append(enVol, Appel(ville))
            /\ dernier' = "fetch"
            /\ UNCHANGED << stationsData, filteredStations, controles, derniereReponse >>

Retirer(s, i) == SubSeq(s, 1, i - 1) \o SubSeq(s, i + 1, Len(s))

\* (mutant) the catch block without the finally block: the flag stays up.
EchecSansFinally(i, cause) ==
    /\ resultats' = Contenu("error", << >>)
    /\ isLoading' = isLoading
    /\ enVol' = Retirer(enVol, i)
    /\ dernier' = cause

\* The catch and finally blocks: showError, then isLoading = false.
Echec(i, cause) ==
    /\ resultats' = Contenu("error", << >>)
    /\ isLoading' = FALSE
    /\ enVol' = Retirer(enVol, i)
    /\ dernier' = cause

\* await fetch(...) rejects: a network error.
FetchRejette(i) ==
    /\ i \in 1..Len(enVol)
    /\ enVol[i].pc = "fetch"
    /\ Echec(i, "echec-reseau")
    /\ UNCHANGED << stationsData, filteredStations, villeInput, controles, derniereReponse,
                    age >>

\* await fetch(...) resolves with a response; the call goes on to
\* await response.json().
\* (response.ok is read after the second await only: the two actions that
\* resolve it tell an ok response from one that is not.)
FetchResout(i) ==
    /\ i \in 1..Len(enVol)
    /\ enVol[i].pc = "fetch"
    /\ enVol' = [enVol EXCEPT ![i] = [@ EXCEPT !.pc = "json"]]
    /\ dernier' = "reponse"
    /\ UNCHANGED << stationsData, filteredStations, isLoading, resultats, villeInput,
                    controles, derniereReponse, age >>

\* await response.json() rejects: the body is not JSON.
JsonRejette(i) ==
    /\ i \in 1..Len(enVol)
    /\ enVol[i].pc = "json"
    /\ Echec(i, "echec-json")
    /\ UNCHANGED << stationsData, filteredStations, villeInput, controles, derniereReponse,
                    age >>

\* The bodies the server may send with a success status: an object with a
\* list of stations, or one without the property 'stations'.
Donnees ==
    {[aStations |-> TRUE, stations |-> p] : p \in Payloads}
      \cup {[aStations |-> FALSE, stations |-> << >>]}

\* data.stations || []
StationsDe(data) == IF data.aStations THEN data.stations ELSE << >>

\* (mutant) the stations are stored before response.ok is tested.
JsonResoutErreurStocke(i) ==
    /\ i \in 1..Len(enVol)
    /\ enVol[i].pc = "json"
    /\ Echec(i, "echec-http")
    /\ stationsData' = << >>
    /\ filteredStations' = << >>
    /\ UNCHANGED << villeInput, controles, derniereReponse, age >>

\* await response.json() resolves with the body of a response that is
\* not ok: throw new Error(data.error || ...), then catch and finally.
JsonResoutErreur(i) ==
    /\ i \in 1..Len(enVol)
    /\ enVol[i].pc = "json"
    /\ Echec(i, "echec-http")
    /\ UNCHANGED << stationsData, filteredStations, villeInput, controles, derniereReponse,
                    age >>

\* await response.json() resolves with the body data of a response that is
\* ok: the rest of the try block, then catch (when appliquerFiltres
\* throws) and finally.
JsonResout(i, data) ==
    /\ i \in 1..Len(enVol)
    /\ enVol[i].pc = "json"
    /\ LET r == AppliquerFiltres(StationsDe(data), StationsDe(data), resultats,
                                 triSelect, typeStationSelect, horairesSelect,
                                 fuelsChecked)
       IN  /\ stationsData' = r.stationsData
           /\ filteredStations' = r.filteredStations
           /\ resultats' = IF r.leve THEN Contenu("error", << >>) ELSE r.resultats
           /\ isLoading' = FALSE
           /\ enVol' = Retirer(enVol, i)
           /\ dernier' = IF r.leve THEN "echec-donnees" ELSE "succes"
           /\ derniereReponse' = StationsDe(data)
           /\ UNCHANGED << villeInput, controles, age >>

\* ------------------------------------------------------- filter handlers
\* The 'change' listeners of bindFilterEvents: the control has its new
\* value, then appliquerFiltres runs.
Appliquer(tri, type, horaires, fuels, nom) ==
    LET r == AppliquerFiltres(stationsData, filteredStations, resultats,
                              tri, type, horaires, fuels)
    IN  /\ stationsData' = r.stationsData
        /\ filteredStations' = r.filteredStations
        /\ resultats' = r.resultats
        /\ dernier' = IF r.leve THEN nom \o "-leve" ELSE nom
        /\ UNCHANGED << isLoading, villeInput, enVol, derniereReponse, age >>

ChangerTri(v) ==
    /\ v # triSelect
    /\ triSelect' = v
    /\ UNCHANGED << typeStationSelect, horairesSelect, fuelsChecked >>
    /\ Appliquer(v, typeStationSelect, horairesSelect, fuelsChecked, "filtre")

ChangerType(v) ==
    /\ v # typeStationSelect
    /\ typeStationSelect' = v
    /\ UNCHANGED << triSelect, horairesSelect, fuelsChecked >>
    /\ Appliquer(triSelect, v, horairesSelect, fuelsChecked, "filtre")

ChangerHoraires(v) ==
    /\ v # horairesSelect
    /\ horairesSelect' = v
    /\ UNCHANGED << triSelect, typeStationSelect, fuelsChecked >>
    /\ Appliquer(triSelect, typeStationSelect, v, fuelsChecked, "filtre")

BasculerCarburant(f) ==
    LET fuels == IF f \in fuelsChecked THEN fuelsChecked \ {f} ELSE fuelsChecked \cup {f}
    IN  /\ fuelsChecked' = fuels
        /\ UNCHANGED << triSelect, typeStationSelect, horairesSelect >>
        /\ Appliquer(triSelect, typeStationSelect, horairesSelect, fuels, "filtre")

\* (mutant) a reset that leaves the sort control as it is.
ReinitialiserFiltresGardeTri ==
    /\ triSelect' = triSelect
    /\ typeStationSelect' = ""
    /\ horairesSelect' = ""
    /\ fuelsChecked' = {}
    /\ Appliquer(triSelect, "", "", {}, "reset")

\* reinitialiserFiltres
ReinitialiserFiltres ==
    /\ triSelect' = "date-maj"
    /\ typeStationSelect' = ""
    /\ horairesSelect' = ""
    /\ fuelsChecked' = {}
    /\ Appliquer("date-maj", "", "", {}, "reset")

\* The controller with every handler.  The user picks the values of the
\* controls among a few of each control's values; SpecFiltres below covers
\* all of them.
Next ==
    \/ \E q \in Queries : RechercherStations(q)
    \/ \E i \in 1..MaxEnVol : FetchRejette(i)
    \/ \E i \in 1..MaxEnVol : FetchResout(i)
    \/ \E i \in 1..MaxEnVol : JsonRejette(i)
    \/ \E i \in 1..MaxEnVol : JsonResoutErreur(i)
    \/ \E i \in 1..MaxEnVol, data \in Donnees : JsonResout(i, data)
    \/ \E v \in {"date-maj", "prix-decroissant"} : ChangerTri(v)
    \/ \E v \in {"", "autoroute"} : ChangerType(v)
    \/ \E v \in {"", "ouvert"} : ChangerHoraires(v)
    \/ BasculerCarburant("Gazole")
    \/ ReinitialiserFiltres

Spec == Init /\ [][Next]_vars

\* --------------------------------------------- the filter and sort engine
\* The states in which the first search of a session has just succeeded,
\* the controls being as the constructor found them: the object after
\* RechercherStations, FetchResout and JsonResout(1, data).
InitFiltres ==
    \E data \in Donnees :
        LET r == AppliquerFiltres(StationsDe(data), StationsDe(data),
                                  Contenu("loading", << >>), "date-maj", "", "", {})
        IN  /\ stationsData = r.stationsData
            /\ filteredStations = r.filteredStations
            /\ resultats = (IF r.leve THEN Contenu("error", << >>) ELSE r.resultats)
            /\ isLoading = FALSE
            /\ villeInput = << "P" >>
            /\ triSelect = "date-maj"
            /\ typeStationSelect = ""
            /\ horairesSelect = ""
            /\ fuelsChecked = {}
            /\ enVol = << >>
            /\ dernier = (IF r.leve THEN "echec-donnees" ELSE "succes")
            /\ derniereReponse = StationsDe(data)
            /\ majLue = MajTexte("")
            /\ maintenant = 0
            /\ ageClass = ""

\* The user changes the controls, with every value of each, and searches
\* no more.
NextFiltres ==
    \/ \E v \in TriValues : ChangerTri(v)
    \/ \E v \in TypeValues : ChangerType(v)
    \/ \E v \in HorairesValues : ChangerHoraires(v)
    \/ \E f \in Fuels : BasculerCarburant(f)
    \/ ReinitialiserFiltres

SpecFiltres == InitFiltres /\ [][NextFiltres]_vars

\* ------------------------------------------------- the freshness classes
\* The days, months, years and minutes of the timestamps read: with them two
\* instants are 7 days, 30 days, or one minute more apart, within a month
\* or across February of a leap year and of a common year.  The day 31 of
\* a month that has fewer days matches the pattern too.
JoursLus == {1, 8, 31}
MoisLus == {1, 2, 3}
AnneesLues == {2024, 2025}
MinutesLues == {0, 1}

\* The timestamp strings that match the pattern.
DatesLues ==
    {Maj(j, m, a, 8, mi) : j \in JoursLus, m \in MoisLus, a \in AnneesLues, mi \in MinutesLues}

\* The values of prix.maj: the strings that match, the sentinel, the
\* empty string and a text in another format.
MajValues ==
    DatesLues \cup {MajTexte("Non renseigné"), MajTexte(""), MajTexte("2025-01-20 09:30")}

\* The instants at which the clock is read.
Maintenants ==
    {DateGetTime(d.annee, d.mois - 1, d.jour, d.heure, d.minute) : d \in DatesLues}

\* The controller as the constructor leaves it, a price timestamp to
\* classify, and the clock.
InitAge ==
    /\ stationsData = << >>
    /\ filteredStations = << >>
    /\ isLoading = FALSE
    /\ resultats = Contenu("vide", << >>)
    /\ villeInput = << >>
    /\ triSelect = "date-maj"
    /\ typeStationSelect = ""
    /\ horairesSelect = ""
    /\ fuelsChecked = {}
    /\ enVol = << >>
    /\ dernier = "init"
    /\ derniereReponse = << >>
    /\ majLue \in MajValues
    /\ maintenant \in Maintenants
    /\ ageClass = ""

\* const ageClass = this.getDataAge(prix.maj)
AppelGetDataAge ==
    /\ ageClass = ""
    /\ ageClass' = GetDataAge(majLue, maintenant)
    /\ dernier' = "age"
    /\ UNCHANGED << stationsData, filteredStations, isLoading, resultats, villeInput,
                    controles, enVol, derniereReponse, majLue, maintenant >>

NextAge == AppelGetDataAge

SpecAge == InitAge /\ [][NextAge]_vars

\* ================================================================ claims
\* The text q holds nothing but white space.
EstBlanc(q) == \A i \in 1..Len(q) : q[i] = " "

\* What a step that is a search trigger writes in dernier.
Declenchements == {"alerte", "ignore", "fetch"}

\* What a step that settles a request by a failure writes in dernier.
EchecsRequete == {"echec-reseau", "echec-json", "echec-http"}

\* The predicates of the three filters on a station (a station without a
\* price list sells no fuel).
PasseType(s, v) ==
    \/ v = ""
    \/ v = "autoroute" /\ s.type = "Autoroute"
    \/ v = "route" /\ s.type = "Route"

PasseHoraires(s, v) ==
    \/ v = ""
    \/ v = "24h" /\ s.automate_24h
    \/ v = "ouvert" /\ (s.horaires # "Horaires non disponibles" \/ s.automate_24h)

PasseCarburants(s, fuels) ==
    fuels = {} \/ \E i \in 1..Len(s.prix) : s.prix[i].nom \in fuels

\* The view of a collection under a FilterSpec and a sort key: the
\* stations that pass the three predicates, sorted.
VueAttendue(data, tri, type, horaires, fuels) ==
    TrierStations(
        SelectSeq(data, LAMBDA s : PasseType(s, type) /\ PasseHoraires(s, horaires)
                                     /\ PasseCarburants(s, fuels)),
        TriLu(tri))

VueCourante ==
    VueAttendue(stationsData, triSelect, typeStationSelect, horairesSelect, fuelsChecked)

\* C1: at most one request is awaited at any time, and a search trigger
\* with a non-blank query fired while a request is awaited sends no request
\* and leaves the canonical collection, the filtered view, the display and
\* the loading flag as they are.
C1_UneSeuleRequete ==
    [][ /\ Len(enVol') <= 1
        /\ (enVol # << >> /\ dernier' \in Declenchements /\ ~EstBlanc(villeInput'))
             => UNCHANGED << enVol, stationsData, filteredStations, resultats, isLoading >>
      ]_vars

\* C1 witness: a non-blank trigger has just been ignored, the first request
\* still being awaited.
C1_Witness ==
    dernier = "ignore" /\ ~EstBlanc(villeInput) /\ Len(enVol) = 1 /\ isLoading

\* C2 (as claimed): when a request settles with a success payload, the
\* controller is no longer loading, the canonical collection is the
\* returned list, and the filtered view and the display are the filter and
\* sort of that list under the current controls; the display does not show
\* the loading indicator, whatever the payload.
C2_SuccesDonnePret ==
    dernier \in {"succes", "echec-donnees"} =>
        /\ ~isLoading
        /\ stationsData = derniereReponse
        /\ filteredStations = VueCourante
        /\ resultats.kind \in {"results", "no-results"}
        /\ resultats.stations = VueCourante

\* C3: a request that settles by a network error, an unparsable body or a
\* response that is not ok ends in the error display with the loading flag
\* released, sends no other request, and leaves the canonical collection
\* as it was when the request was sent.
C3_EchecPreserveDonnees ==
    [][ dernier' \in EchecsRequete =>
          /\ \E i \in 1..Len(enVol) :
                /\ enVol' = Retirer(enVol, i)
                /\ stationsData' = enVol[i].avant
          /\ stationsData' = stationsData
          /\ ~isLoading'
          /\ resultats'.kind = "error"
      ]_vars

\* C3 witness: a request has failed after an earlier one had filled the
\* canonical collection, which is still there.
C3_Witness ==
    dernier \in EchecsRequete /\ stationsData # << >> /\ stationsData = derniereReponse

\* C4: a search trigger whose query is empty or white space only, in any
\* state of the controller, raises the validation notice and nothing else:
\* no request, same loading flag, canonical collection, filtered view and
\* display.
C4_RequeteVideRejetee ==
    [][ (dernier' \in Declenchements /\ EstBlanc(villeInput')) =>
          /\ dernier' = "alerte"
          /\ UNCHANGED << enVol, isLoading, stationsData, filteredStations, resultats >>
      ]_vars

\* C4 witness: a white-space query has been rejected while a request was
\* awaited.
C4_Witness ==
    dernier = "alerte" /\ villeInput # << >> /\ EstBlanc(villeInput) /\ isLoading

\* What a step that is a handler of the filter and sort controls writes in
\* dernier (with -leve when the handler ended by an exception).
Filtrages == {"filtre", "filtre-leve", "reset", "reset-leve"}

\* The station has an empty price list.
SansPrix(s) == s.aPrix /\ Len(s.prix) = 0

\* The station has at least one price.
AvecPrix(s) == s.aPrix /\ Len(s.prix) > 0

\* C5 (as claimed): under both price sort keys, every station without
\* price comes after every station that has a price.
C5_SansPrixEnDernier ==
    (dernier = "filtre" /\ triSelect \in {"prix-croissant", "prix-decroissant"}) =>
        \A i, j \in 1..Len(filteredStations) :
            (SansPrix(filteredStations[i]) /\ AvecPrix(filteredStations[j])) => j < i

\* The controller is ready: no request awaited, results (or their absence)
\* on display.
Pret == ~isLoading /\ enVol = << >> /\ resultats.kind \in {"results", "no-results"}

\* C6 (as claimed): a change of a filter or of the sort key while the
\* controller is ready sends no request, leaves the loading flag and the
\* ready state, and sets the filtered view to the filter and sort of the
\* canonical collection under the new values of the controls.
C6_FiltreSynchrone ==
    [][ (Pret /\ dernier' \in {"filtre", "filtre-leve"}) =>
          /\ enVol' = enVol
          /\ isLoading' = isLoading
          /\ Pret'
          /\ filteredStations' = VueCourante'
      ]_vars

\* The stations of a list, as a set.
Elements(l) == {l[i] : i \in 1..Len(l)}

\* C7: no handler of the filter and sort controls changes the canonical
\* collection, which is at all times the list of the last success payload,
\* in its order; and after a reset the filtered collection holds every
\* station of it.
C7_CanoniqueIntact ==
    [][ /\ stationsData' = derniereReponse'
        /\ dernier' \in Filtrages => stationsData' = stationsData
        /\ dernier' \in {"reset", "reset-leve"} =>
              Elements(filteredStations') = Elements(stationsData')
      ]_vars

\* C7 witness: after a search that returned two stations not in the order
\* of their dates, and a reset, the canonical collection is the response
\* and the filtered collection a reordering of it.
C7_Witness ==
    /\ dernier = "reset"
    /\ Len(stationsData) = 2
    /\ stationsData = derniereReponse
    /\ filteredStations # stationsData
    /\ Elements(filteredStations) = Elements(stationsData)

\* C8 (as claimed): with an empty, default or unrecognized sort key the
\* stations are in the order the key date-maj gives.
C8_CleInconnueCommeDateMaj ==
    (dernier = "filtre" /\ triSelect \notin {"prix-croissant", "prix-decroissant",
                                             "ville-az", "marque-az"}) =>
        filteredStations = VueAttendue(stationsData, "date-maj", typeStationSelect,
                                       horairesSelect, fuelsChecked)

\* The timestamp string is neither well-formed nor the sentinel.
MajMalformee(maj) == maj.forme \notin {"date", "Non renseigné"}

\* The record lacks its price list or a price value, or has a malformed
\* timestamp.
Malforme(s) ==
    \/ ~s.aPrix
    \/ \E i \in 1..Len(s.prix) : ~s.prix[i].aValeur \/ MajMalformee(s.prix[i].maj)

\* C9 (as claimed): a success payload with a malformed record ends in the
\* ready state with the whole view on display, not in the error state.
C9_MalformeSansEchec ==
    (dernier \in {"succes", "echec-donnees"}
        /\ \E i \in 1..Len(stationsData) : Malforme(stationsData[i])) =>
        /\ Pret
        /\ resultats.kind # "error"
        /\ resultats.stations = VueCourante

\* The six orders of the three filters.
Ordres ==
    {o \in [1..3 -> {"type", "horaires", "carburants"}] : \A i, j \in 1..3 : o[i] = o[j] => i = j}

\* One filter of appliquerFiltres applied to the outcome of the ones before.
Etape(nom, r, type, horaires, fuels) ==
    IF r.leve THEN r
    ELSE CASE nom = "type" -> [leve |-> FALSE, stations |-> FiltrerType(r.stations, type)]
           [] nom = "horaires" -> [leve |-> FALSE, stations |-> FiltrerHoraires(r.stations, horaires)]
           [] nom = "carburants" ->
                IF CarburantsLeve(r.stations, fuels) THEN [leve |-> TRUE, stations |-> r.stations]
                ELSE [leve |-> FALSE, stations |-> FiltrerCarburants(r.stations, fuels)]

\* The three filters applied in the order o.
FiltrerDansOrdre(o, data, type, horaires, fuels) ==
    Etape(o[3], Etape(o[2], Etape(o[1], [leve |-> FALSE, stations |-> data],
                                  type, horaires, fuels),
                      type, horaires, fuels),
          type, horaires, fuels)

\* C10 (as claimed): on the canonical collection and the current
\* FilterSpec, the three filters in each of the six orders keep the
\* stations that pass the three predicates, and all of them when the
\* FilterSpec is empty.
C10_FiltresCommutent ==
    \A o \in Ordres :
        LET r == FiltrerDansOrdre(o, stationsData, typeStationSelect, horairesSelect,
                                  fuelsChecked)
        IN  /\ ~r.leve
            /\ Elements(r.stations) =
                  {s \in Elements(stationsData) :
                      /\ PasseType(s, typeStationSelect)
                      /\ PasseHoraires(s, horairesSelect)
                      /\ PasseCarburants(s, fuelsChecked)}
            /\ (typeStationSelect = "" /\ horairesSelect = "" /\ fuelsChecked = {})
                  => r.stations = stationsData

\* What the reset handler writes in dernier (with -leve when the rendering
\* of a card ended it by an exception).
Reinitialisations == {"reset", "reset-leve"}

\* C11: the reset action, whatever the controls hold, puts the sort
\* control on date-maj, the station-type and hours controls on none and
\* unchecks every fuel; it sends no request and touches neither the awaited
\* ones nor the loading flag, leaves the canonical collection as it is, and
\* sets the filtered view to the whole canonical collection sorted by
\* date-maj.
C11_ResetParDefaut ==
    [][ dernier' \in Reinitialisations =>
          /\ triSelect' = "date-maj"
          /\ typeStationSelect' = ""
          /\ horairesSelect' = ""
          /\ fuelsChecked' = {}
          /\ UNCHANGED << enVol, isLoading, stationsData >>
          /\ filteredStations' = VueAttendue(stationsData, "date-maj", "", "", {})
          /\ Len(filteredStations') = Len(stationsData)
      ]_vars

\* C11 witness: a reset taken while a request is awaited, on a canonical
\* collection of two stations that the date-maj order rearranges.
C11_Witness ==
    /\ dernier = "reset"
    /\ enVol # << >>
    /\ Len(stationsData) = 2
    /\ filteredStations = TrierStations(stationsData, "date-maj")
    /\ filteredStations # stationsData
    /\ triSelect = "date-maj" /\ typeStationSelect = "" /\ horairesSelect = ""
    /\ fuelsChecked = {}

\* What a step that settles a request writes in dernier: the three failures
\* of the request, a success, and a success whose records make
\* appliquerFiltres throw.
Reglements == EchecsRequete \cup {"succes", "echec-donnees"}

\* C12: every step that settles the awaited request, by success or by any
\* failure, releases the loading flag; the flag is up exactly while a
\* request is awaited, so that searches are never rejected with no request
\* outstanding; and a search trigger with a non-blank query taken when no
\* request is awaited (from ready or from error) is accepted: it sends
\* exactly one request, raises the flag and shows the loading indicator.
C12_GardeRelachee ==
    [][ /\ dernier' \in Reglements =>
              /\ ~isLoading'
              /\ Len(enVol') = Len(enVol) - 1
        /\ isLoading' <=> (enVol' # << >>)
        /\ (enVol = << >> /\ dernier' \in Declenchements /\ ~EstBlanc(villeInput')) =>
              /\ dernier' = "fetch"
              /\ Len(enVol') = 1
              /\ enVol'[1].pc = "fetch"
              /\ isLoading'
              /\ resultats'.kind = "loading"
      ]_vars

\* C12 witness: a new search has been accepted and is the only request
\* awaited, after an earlier one had settled by a success and filled the
\* canonical collection.
C12_Witness ==
    /\ dernier = "fetch"
    /\ Len(enVol) = 1
    /\ isLoading
    /\ resultats.kind = "loading"
    /\ ~EstBlanc(villeInput)
    /\ stationsData # << >>
    /\ filteredStations # stationsData

\* The rank of a freshness class: fresh < old < stale.
Rang(classe) == CASE classe = "fresh" -> 0 [] classe = "old" -> 1 [] classe = "stale" -> 2

\* The days of month m of year a.
JoursDuMois(m, a) ==
    IF m = 2 THEN (IF (a % 4 = 0 /\ a % 100 # 0) \/ a % 400 = 0 THEN 29 ELSE 28)
    ELSE IF m \in {4, 6, 9, 11} THEN 30 ELSE 31

\* The timestamp names a day of the calendar and a minute of that day.
EstCalendaire(d) ==
    /\ d.forme = "date"
    /\ d.mois \in 1..12
    /\ d.jour \in 1..JoursDuMois(d.mois, d.annee)
    /\ d.heure \in 0..23
    /\ d.minute \in 0..59

\* The timestamp d1 is before d2 in the calendar.
Avant(d1, d2) ==
    \/ d1.annee < d2.annee
    \/ d1.annee = d2.annee /\ d1.mois < d2.mois
    \/ d1.annee = d2.annee /\ d1.mois = d2.mois /\ d1.jour < d2.jour
    \/ d1.annee = d2.annee /\ d1.mois = d2.mois /\ d1.jour = d2.jour /\ d1.heure < d2.heure
    \/ d1.annee = d2.annee /\ d1.mois = d2.mois /\ d1.jour = d2.jour /\ d1.heure = d2.heure
          /\ d1.minute < d2.minute

\* The age of the timestamp that was classified, in minutes.
AgeLu == maintenant - ParseDisplayDate(majLue)

====
